---- MODULE Spec2Model ----
(***************************************************************************)
(* Scholar-Fi ROFL monitoring service (contracts/rofl/src/main.rs).        *)
(*                                                                         *)
(* The model covers MonitoringConfig::default, RoflMonitor::run with its   *)
(* tokio interval, and the growth expression of the loop body.  u128 and   *)
(* f64 values are wider than TLC's integers, so unsigned integers are      *)
(* little-endian limb sequences and an f64 is a pair (mantissa, exponent)  *)
(* rounded to 53 bits, nearest-even, after every operation.                *)
(***************************************************************************)
EXTENDS Integers, Sequences, FiniteSets, TLC

(***************************************************************************)
(* Unsigned big integers: little-endian sequences of limbs below Base,     *)
(* without high zero limbs; zero is the empty sequence.  Small factors and *)
(* divisors are below 2^10, so that every intermediate product fits a      *)
(* 32-bit integer.                                                         *)
(***************************************************************************)
LimbBits == 3 * 7
Base == 2^LimbBits

Max(x, y) == IF x >= y THEN x ELSE y

Limb(a, i) == IF 1 <= i /\ i <= Len(a) THEN a[i] ELSE 0

Norm(a) ==
    LET used == {i \in 1..Len(a) : a[i] # 0}
        top  == IF used = {} THEN 0 ELSE CHOOSE i \in used : \A j \in used : j <= i
    IN  SubSeq(a, 1, top)

BigOfInt(n) == Norm(<<n % Base, n \div Base>>)

RECURSIVE AddFrom(_, _, _, _)
AddFrom(a, b, i, carry) ==
    IF i > Max(Len(a), Len(b))
    THEN (IF carry = 0 THEN <<>> ELSE <<carry>>)
    ELSE LET s == Limb(a, i) + Limb(b, i) + carry
         IN  <<s % Base>> \o AddFrom(a, b, i + 1, s \div Base)

BigAdd(a, b) == AddFrom(a, b, 1, 0)

\* a - b for a >= b
RECURSIVE SubFrom(_, _, _, _)
SubFrom(a, b, i, borrow) ==
    IF i > Len(a) THEN <<>>
    ELSE LET d == Limb(a, i) - Limb(b, i) - borrow
         IN  IF d < 0 THEN <<d + Base>> \o SubFrom(a, b, i + 1, 1)
             ELSE <<d>> \o SubFrom(a, b, i + 1, 0)

BigSub(a, b) == Norm(SubFrom(a, b, 1, 0))

\* -1, 0, 1 as a is below, equal to, above b
BigCmp(a, b) ==
    IF Len(a) < Len(b) THEN -1
    ELSE IF Len(a) > Len(b) THEN 1
    ELSE LET diff == {i \in 1..Len(a) : a[i] # b[i]}
         IN  IF diff = {} THEN 0
             ELSE LET top == CHOOSE i \in diff : \A j \in diff : j <= i
                  IN  IF a[top] < b[top] THEN -1 ELSE 1

BigLe(a, b) == BigCmp(a, b) <= 0
BigLt(a, b) == BigCmp(a, b) < 0

\* a * k for a small k
RECURSIVE MulFrom(_, _, _, _)
MulFrom(a, k, i, carry) ==
    IF i > Len(a) THEN <<carry>>
    ELSE LET p == a[i] * k + carry
         IN  <<p % Base>> \o MulFrom(a, k, i + 1, p \div Base)

MulSmall(a, k) == Norm(MulFrom(a, k, 1, 0))

\* quotient limbs and remainder of a by a small d, from the high limb down
RECURSIVE DivFrom(_, _, _, _)
DivFrom(a, d, i, rem) ==
    IF i = 0 THEN [q |-> <<>>, r |-> rem]
    ELSE LET cur  == rem * Base + a[i]
             rest == DivFrom(a, d, i - 1, cur % d)
         IN  [q |-> rest.q \o <<cur \div d>>, r |-> rest.r]

Zeros(n) == [i \in 1..n |-> 0]

\* a * 2^s and a \div 2^s for s below LimbBits
ShiftLeftIn(a, s) ==
    Norm([i \in 1..(Len(a) + 1) |->
            (Limb(a, i) % 2^(LimbBits - s)) * 2^s + Limb(a, i - 1) \div 2^(LimbBits - s)])

ShiftRightIn(a, s) ==
    Norm([i \in 1..Len(a) |->
            Limb(a, i) \div 2^s + (Limb(a, i + 1) % 2^s) * 2^(LimbBits - s)])

ShiftLeft(a, s) ==
    IF a = <<>> THEN <<>>
    ELSE Zeros(s \div LimbBits) \o ShiftLeftIn(a, s % LimbBits)

ShiftRight(a, s) ==
    LET drop == s \div LimbBits
    IN  IF drop >= Len(a) THEN <<>>
        ELSE ShiftRightIn(SubSeq(a, drop + 1, Len(a)), s % LimbBits)

IntBitLen(n) == CHOOSE b \in 0..LimbBits : n < 2^b /\ (b = 0 \/ 2^(b - 1) <= n)

BitLen(a) == IF a = <<>> THEN 0 ELSE LimbBits * (Len(a) - 1) + IntBitLen(a[Len(a)])

IsOdd(a) == a # <<>> /\ a[1] % 2 = 1

\* the value of a decimal digit sequence, most significant digit first, taken
\* three digits at a time from the low end
RECURSIVE DecUpTo(_, _)
DecUpTo(ds, n) ==
    IF n = 0 THEN <<>>
    ELSE IF n < 3 THEN BigAdd(MulSmall(DecUpTo(ds, n - 1), 10), BigOfInt(ds[n]))
    ELSE BigAdd(MulSmall(DecUpTo(ds, n - 3), 1000),
                BigOfInt(100 * ds[n - 2] + 10 * ds[n - 1] + ds[n]))

BigOfDec(ds) == DecUpTo(ds, Len(ds))

(***************************************************************************)
(* f64: a finite non-negative double is [m |-> mantissa, e |-> exponent],  *)
(* value m * 2^e with m at most 2^53.  Every value the growth expression   *)
(* meets lies far inside the exponent range, so overflow to infinity and   *)
(* subnormals do not arise.  A rate is an f64 whose mantissa is a small    *)
(* integer: [m |-> 7, e |-> -1] is 3.5.                                    *)
(***************************************************************************)
\* the significand of an f64, hidden bit included
MantBits == 53

\* n * 2^e (plus a nonzero amount below one unit of n when sticky) rounded to
\* MantBits bits, ties to even
RoundToF64(n, e, sticky) ==
    LET L == BitLen(n)
    IN  IF L <= MantBits THEN [m |-> n, e |-> e]
        ELSE LET s    == L - MantBits
                 t    == ShiftRight(n, s - 1)
                 q    == ShiftRight(t, 1)
                 low  == sticky \/ ShiftLeft(t, s - 1) # n
                 up   == IsOdd(t) /\ (low \/ IsOdd(q))
             IN  [m |-> IF up THEN BigAdd(q, <<1>>) ELSE q, e |-> e + s]

\* `vault.vault_amount as f64`
U128ToF64(p) == RoundToF64(p, 0, FALSE)

\* x * r for a rate r
F64MulRate(x, r) == RoundToF64(MulSmall(x.m, r.m), x.e + r.e, FALSE)

GuardBits == 3 * LimbBits

\* x / d for a double d that is a small integer (100.0, 365.0)
F64DivInt(x, d) ==
    LET n  == ShiftLeft(x.m, GuardBits)
        qr == DivFrom(n, d, Len(n), 0)
    IN  RoundToF64(Norm(qr.q), x.e - GuardBits, qr.r # 0)

U128Bits == 128
U128Max == BigSub(ShiftLeft(<<1>>, U128Bits), <<1>>)

\* `x as u128`: truncation toward zero, saturating at u128::MAX
F64ToU128(x) ==
    IF x.e >= 0
    THEN LET v == ShiftLeft(x.m, x.e)
         IN  IF BitLen(v) > U128Bits THEN U128Max ELSE v
    ELSE ShiftRight(x.m, 0 - x.e)

\* r < s for rates
RateLt(r, s) ==
    LET lo == IF r.e <= s.e THEN r.e ELSE s.e
    IN  r.m * 2^(r.e - lo) < s.m * 2^(s.e - lo)

\* the growth over a 360-day year
SimulatedGrowth_Year360(vault_amount, apy) ==
    F64ToU128(F64DivInt(F64DivInt(F64MulRate(U128ToF64(vault_amount), apy), 100), 360))

\* (vault.vault_amount as f64 * apy / 100.0 / 365.0) as u128
SimulatedGrowth(vault_amount, apy) ==
    F64ToU128(F64DivInt(F64DivInt(F64MulRate(U128ToF64(vault_amount), apy), 100), 365))

(***************************************************************************)
(* The environment of the process.  A variable is absent, holds bytes that *)
(* are not Unicode, or holds a string; std::env::var gives Err for the     *)
(* first two.  CHECK_INTERVAL's string is a sequence of characters, the    *)
(* other four are opaque strings.                                          *)
(***************************************************************************)
NotPresent == [kind |-> "NotPresent"]
NotUnicode == [kind |-> "NotUnicode"]
Present(s) == [kind |-> "Present", s |-> s]

\* std::env::var(name)
EnvVar(v) == IF v.kind = "Present" THEN [ok |-> TRUE, val |-> v.s] ELSE [ok |-> FALSE]

DecimalDigits == <<"0", "1", "2", "3", "4", "5", "6", "7", "8", "9">>
IsDigit(c) == \E i \in 1..10 : DecimalDigits[i] = c
DigitVal(c) == (CHOOSE i \in 1..10 : DecimalDigits[i] = c) - 1

U64Bits == 64
U64Max == BigSub(ShiftLeft(<<1>>, U64Bits), <<1>>)

\* str::parse::<u64>: no trimming, an optional leading '+', then decimal
\* digits only; Err when empty, on any other character, and on overflow
ParseU64(src) ==
    IF src = <<>> THEN [ok |-> FALSE]
    ELSE IF Len(src) = 1 /\ src[1] \in {"+", "-"} THEN [ok |-> FALSE]
    ELSE LET digits == IF src[1] = "+" THEN SubSeq(src, 2, Len(src)) ELSE src
         IN  IF \E i \in 1..Len(digits) : ~IsDigit(digits[i]) THEN [ok |-> FALSE]
             ELSE LET v == BigOfDec([i \in 1..Len(digits) |-> DigitVal(digits[i])])
                  IN  IF BigLe(v, U64Max) THEN [ok |-> TRUE, val |-> v]
                      ELSE [ok |-> FALSE]

DEFAULT_CELO_RPC == "https://celo-sepolia-rpc.publicnode.com"
DEFAULT_OASIS_RPC == "https://testnet.sapphire.oasis.io"
ZERO_ADDRESS == "0x0000000000000000000000000000000000000000"
DEFAULT_CHECK_INTERVAL == 3600

\* std::env::var(..).unwrap_or_else(|_| default)
StringOrDefault(v, default) ==
    LET r == EnvVar(v) IN IF r.ok THEN r.val ELSE default

\* unwrap_or_default() in place of unwrap_or(3600)
IntervalOrDefault_ZeroOnError(v) ==
    LET r == EnvVar(v)
    IN  IF ~r.ok THEN <<>>
        ELSE LET parsed == ParseU64(r.val)
             IN  IF parsed.ok THEN parsed.val ELSE <<>>

\* std::env::var("CHECK_INTERVAL").ok().and_then(|v| v.parse().ok()).unwrap_or(3600)
IntervalOrDefault(v) ==
    LET r == EnvVar(v)
    IN  IF ~r.ok THEN BigOfInt(DEFAULT_CHECK_INTERVAL)
        ELSE LET parsed == ParseU64(r.val)
             IN  IF parsed.ok THEN parsed.val ELSE BigOfInt(DEFAULT_CHECK_INTERVAL)

\* MonitoringConfig::default
MonitoringConfigDefault(e) ==
    [celo_rpc                 |-> StringOrDefault(e.CELO_RPC_URL, DEFAULT_CELO_RPC),
     oasis_rpc                |-> StringOrDefault(e.SAPPHIRE_TESTNET_RPC, DEFAULT_OASIS_RPC),
     scholar_fi_vault_address |-> StringOrDefault(e.SCHOLAR_FI_VAULT, ZERO_ADDRESS),
     child_data_store_address |-> StringOrDefault(e.CHILD_DATA_STORE, ZERO_ADDRESS),
     check_interval_seconds   |-> IntervalOrDefault(e.CHECK_INTERVAL)]

(***************************************************************************)
(* What the three collaborators can return.  Their bodies are stubs that   *)
(* return the MOCK values; their signatures return Result, and run()       *)
(* handles both arms, so the model lets each call return any value of a    *)
(* small set or an error.                                                  *)
(***************************************************************************)
MaxVaults == 2
MaxTime == 3

MOCK_VAULT ==
    [child_address   |-> "0x1234567890abcdef1234567890abcdef12345678",
     vault_amount    |-> BigOfDec(<<1, 0,0,0, 0,0,0, 0,0,0, 0,0,0, 0,0,0, 0,0,0>>),
     spending_amount |-> BigOfDec(<<5, 0,0, 0,0,0, 0,0,0, 0,0,0, 0,0,0, 0,0,0>>),
     is_verified     |-> FALSE]

OTHER_VAULT ==
    [child_address   |-> "0xabcdefabcdefabcdefabcdefabcdefabcdefabcd",
     vault_amount    |-> BigOfDec(<<7, 3, 0, 0, 0>>),
     spending_amount |-> <<>>,
     is_verified     |-> TRUE]

VaultRecords == {MOCK_VAULT, OTHER_VAULT}

VaultLists == UNION {[1..n -> VaultRecords] : n \in 0..MaxVaults}

MOCK_APY == [m |-> 7, e |-> -1]
ALERT_THRESHOLD == [m |-> 1, e |-> 1]

\* 3.5, 2.0, 511/256 and 513/256 (just below and just above 2.0), 0.0
Rates ==
    {MOCK_APY, ALERT_THRESHOLD, [m |-> 511, e |-> -8], [m |-> 513, e |-> -8],
     [m |-> 0, e |-> 0]}

IntervalStrings == {<<"0">>, <<"1">>, <<"2">>}

VARIABLES
    env,        \* the process environment
    config,     \* RoflMonitor.config, once main has built it
    pc,         \* where main / run() stands
    now,        \* the clock, in seconds since the process started
    deadline,   \* the instant of the interval's next tick
    vaults,     \* the records the for loop of this cycle has not taken yet
    apy,        \* the rate of this cycle
    calls,      \* the collaborator calls of the current (or last) cycle, in order
    signal,     \* the threshold line logged in the current (or last) cycle
    starts      \* the instants at which the last two cycles started

vars == <<env, config, pc, now, deadline, vaults, apy, calls, signal, starts>>

NoConfig == [check_interval_seconds |-> <<>>]
NoApy == [m |-> 0, e |-> 0]

EnvOf(a, b, c, d, i) ==
    [CELO_RPC_URL |-> a, SAPPHIRE_TESTNET_RPC |-> b, SCHOLAR_FI_VAULT |-> c,
     CHILD_DATA_STORE |-> d, CHECK_INTERVAL |-> i]

InitWith(e) ==
    /\ env = e
    /\ config = NoConfig
    /\ pc = "main"
    /\ now = 0
    /\ deadline = 0
    /\ vaults = <<>>
    /\ apy = NoApy
    /\ calls = <<>>
    /\ signal = "none"
    /\ starts = <<>>

Init ==
    \E i \in {NotPresent} \cup {Present(t) : t \in IntervalStrings} :
        InitWith(EnvOf(NotPresent, NotPresent, NotPresent, NotPresent, i))

\* main: MonitoringConfig::default(), RoflMonitor::new(config), monitor.run()
Main ==
    /\ pc = "main"
    /\ config' = MonitoringConfigDefault(env)
    /\ pc' = "run"
    /\ UNCHANGED <<env, now, deadline, vaults, apy, calls, signal, starts>>

\* time::interval(period) panics when the period is zero
IntervalPanics(period) == period = <<>>

\* run(), up to the loop: the banner is logged and the interval is created; its
\* first tick is due at once
RunStart ==
    /\ pc = "run"
    /\ IF IntervalPanics(config.check_interval_seconds)
       THEN pc' = "panicked" /\ UNCHANGED deadline
       ELSE pc' = "tick" /\ deadline' = now
    /\ UNCHANGED <<env, config, now, vaults, apy, calls, signal, starts>>

FarFuture == 2^30

\* the tick after one due at `timeout` (MissedTickBehavior::Burst, the default:
\* one period after the tick that was due, however late it was taken)
NextTimeout(timeout, period) ==
    IF Len(period) > 1 \/ timeout >= FarFuture THEN FarFuture
    ELSE timeout + period[1]

\* interval.tick().await completes once the tick is due; the cycle starts
Tick ==
    /\ pc = "tick"
    /\ now >= deadline
    /\ deadline' = NextTimeout(deadline, config.check_interval_seconds)
    /\ pc' = "fetch_vault_balances"
    /\ calls' = <<>>
    /\ signal' = "none"
    /\ starts' = IF starts = <<>> THEN <<now>> ELSE <<starts[Len(starts)], now>>
    /\ UNCHANGED <<env, config, now, vaults, apy>>

\* "=== Monitoring Cycle Complete ===", and the loop awaits the next tick; the
\* locals of the cycle are dropped
CycleComplete ==
    /\ pc' = "tick"
    /\ vaults' = <<>>
    /\ apy' = NoApy

\* Ok(vaults) => "Found {} active vaults", on to check_aave_apy
FetchedOk(v) ==
    /\ calls' = Append(calls, [fn |-> "fetch_vault_balances", ok |-> TRUE, vaults |-> v])
    /\ vaults' = v
    /\ pc' = "check_aave_apy"
    /\ UNCHANGED <<apy, signal>>

\* the fetch error taken for an empty collection: the cycle goes on
FetchedErr_FallsThrough ==
    /\ calls' = Append(calls, [fn |-> "fetch_vault_balances", ok |-> FALSE])
    /\ vaults' = <<>>
    /\ pc' = "check_aave_apy"
    /\ UNCHANGED <<apy, signal>>

\* Err(e) => error!("Failed to fetch vault balances: {}", e)
FetchedErr ==
    /\ calls' = Append(calls, [fn |-> "fetch_vault_balances", ok |-> FALSE])
    /\ CycleComplete
    /\ UNCHANGED signal

\* match self.fetch_vault_balances().await
FetchVaultBalances ==
    /\ pc = "fetch_vault_balances"
    /\ \/ \E v \in VaultLists : FetchedOk(v)
       \/ FetchedErr
    /\ UNCHANGED <<env, config, now, deadline, starts>>

\* apy <= 2.0 in place of apy < 2.0
ThresholdSignal_AtOrBelow(a) ==
    IF RateLt(a, ALERT_THRESHOLD) \/ a = ALERT_THRESHOLD THEN "alert" ELSE "healthy"

\* if apy < 2.0 { alert } else { healthy }
ThresholdSignal(a) == IF RateLt(a, ALERT_THRESHOLD) THEN "alert" ELSE "healthy"

\* Ok(apy) => the rate and the threshold line are logged, on to the for loop
\* (which ends the cycle at once over an empty collection)
RateOk(a) ==
    /\ calls' = Append(calls, [fn |-> "check_aave_apy", ok |-> TRUE, apy |-> a])
    /\ signal' = ThresholdSignal(a)
    /\ IF vaults = <<>>
       THEN CycleComplete
       ELSE pc' = "update_oasis_growth" /\ apy' = a /\ UNCHANGED vaults

\* the rate error propagated with `?`: run() returns
RateErr_Propagates ==
    /\ calls' = Append(calls, [fn |-> "check_aave_apy", ok |-> FALSE])
    /\ pc' = "returned"
    /\ UNCHANGED <<vaults, apy, signal>>

\* the rate error replaced by a rate of zero: the cycle goes on
RateErr_ZeroRate ==
    /\ calls' = Append(calls, [fn |-> "check_aave_apy", ok |-> FALSE])
    /\ signal' = "alert"
    /\ IF vaults = <<>>
       THEN CycleComplete
       ELSE pc' = "update_oasis_growth" /\ apy' = NoApy /\ UNCHANGED vaults

\* Err(e) => error!("Failed to check Aave APY: {}", e)
RateErr ==
    /\ calls' = Append(calls, [fn |-> "check_aave_apy", ok |-> FALSE])
    /\ CycleComplete
    /\ UNCHANGED signal

\* match self.check_aave_apy().await
CheckAaveApy ==
    /\ pc = "check_aave_apy"
    /\ \/ \E a \in Rates : RateOk(a)
       \/ RateErr
    /\ UNCHANGED <<env, config, now, deadline, starts>>

\* a failed push ends the loop
PushNext_BreakOnError(ok) ==
    LET vault == Head(vaults)
        simulated_growth == SimulatedGrowth(vault.vault_amount, apy)
    IN  /\ calls' = Append(calls, [fn |-> "update_oasis_growth", ok |-> ok,
                                   child_address |-> vault.child_address,
                                   vault_growth |-> simulated_growth])
        /\ IF Tail(vaults) = <<>> \/ ~ok
           THEN CycleComplete
           ELSE vaults' = Tail(vaults) /\ UNCHANGED <<pc, apy>>

\* the loop takes the records from the back of the collection
PushNext_FromBack(ok) ==
    LET vault == vaults[Len(vaults)]
        simulated_growth == SimulatedGrowth(vault.vault_amount, apy)
    IN  /\ calls' = Append(calls, [fn |-> "update_oasis_growth", ok |-> ok,
                                   child_address |-> vault.child_address,
                                   vault_growth |-> simulated_growth])
        /\ IF Len(vaults) = 1
           THEN CycleComplete
           ELSE vaults' = SubSeq(vaults, 1, Len(vaults) - 1) /\ UNCHANGED <<pc, apy>>

\* one turn of `for vault in vaults`: the growth of the next record is computed
\* and pushed; a failed push is logged and the loop goes on
PushNext(ok) ==
    LET vault == Head(vaults)
        simulated_growth == SimulatedGrowth(vault.vault_amount, apy)
    IN  /\ calls' = Append(calls, [fn |-> "update_oasis_growth", ok |-> ok,
                                   child_address |-> vault.child_address,
                                   vault_growth |-> simulated_growth])
        /\ IF Tail(vaults) = <<>>
           THEN CycleComplete
           ELSE vaults' = Tail(vaults) /\ UNCHANGED <<pc, apy>>

\* self.update_oasis_growth(&vault.child_address, simulated_growth).await
UpdateOasisGrowth ==
    /\ pc = "update_oasis_growth"
    /\ \E ok \in BOOLEAN : PushNext(ok)
    /\ UNCHANGED <<env, config, now, deadline, signal, starts>>

\* a second passes while run() is suspended at an await
Advance ==
    /\ pc \in {"tick", "fetch_vault_balances", "check_aave_apy", "update_oasis_growth"}
    /\ now < MaxTime
    /\ now' = now + 1
    /\ UNCHANGED <<env, config, pc, deadline, vaults, apy, calls, signal, starts>>

Next ==
    \/ Main
    \/ RunStart
    \/ Tick
    \/ FetchVaultBalances
    \/ CheckAaveApy
    \/ UpdateOasisGrowth
    \/ Advance

Spec == Init /\ [][Next]_vars

\* the awaited collaborator futures complete: a cycle that has started keeps
\* taking its steps.  UpdateOasisGrowth is enabled exactly when pc is
\* "update_oasis_growth", and its weak fairness is written with that predicate
\* in place of ENABLED.
FairSpec ==
    /\ Spec
    /\ WF_vars(FetchVaultBalances)
    /\ WF_vars(CheckAaveApy)
    /\ ([]<>(pc # "update_oasis_growth") \/ []<><<UpdateOasisGrowth>>_vars)

(***************************************************************************)
(* MonitoringConfig::default over every combination of the five variables. *)
(***************************************************************************)
StringValues == {NotPresent, NotUnicode, Present(""), Present("http://localhost:8545")}

IntervalValues ==
    {NotPresent, NotUnicode} \cup
    {Present(t) : t \in IntervalStrings \cup
        {<<>>, <<"+">>, <<"-", "1">>, <<"+", "5">>, <<" ", "5">>, <<"5", "s">>,
         <<"0", "0", "7">>, <<"3", "6", "0", "0">>, <<"1", ".", "5">>,
         \* u64::MAX and u64::MAX + 1
         <<"1","8","4","4","6","7","4","4","0","7","3","7","0","9","5","5","1","6","1","5">>,
         <<"1","8","4","4","6","7","4","4","0","7","3","7","0","9","5","5","1","6","1","6">>}}

InitConfig ==
    \E a \in StringValues, b \in StringValues, c \in StringValues, d \in StringValues,
       i \in IntervalValues :
        InitWith(EnvOf(a, b, c, d, i))

NextConfig == Main

SpecConfig == InitConfig /\ [][NextConfig]_vars

(***************************************************************************)
(* The growth expression over principals around every power of two of the  *)
(* u128 range and over a set of rates: the state is the one run() is in    *)
(* when the for loop is about to take a single fetched record.             *)
(***************************************************************************)
MaxPrincipalBits == 126

GrowthPrincipals ==
    {<<>>, <<1>>, MOCK_VAULT.vault_amount, OTHER_VAULT.vault_amount, U128Max}
    \cup {BigAdd(ShiftLeft(<<1>>, k), <<1>>) : k \in 0..MaxPrincipalBits}
    \cup {BigSub(ShiftLeft(<<1>>, k), <<1>>) : k \in 1..MaxPrincipalBits}

\* the rates above, 1.5, 25.0 and 255.75
GrowthRates == Rates \cup {[m |-> 3, e |-> -1], [m |-> 25, e |-> 0], [m |-> 1023, e |-> -2]}

InitGrowth ==
    \E p \in GrowthPrincipals, r \in GrowthRates :
        LET fetched == <<[MOCK_VAULT EXCEPT !.vault_amount = p]>>
            e == EnvOf(NotPresent, NotPresent, NotPresent, NotPresent, NotPresent)
        IN  /\ env = e
            /\ config = MonitoringConfigDefault(e)
            /\ pc = "update_oasis_growth"
            /\ now = 0
            /\ deadline = DEFAULT_CHECK_INTERVAL
            /\ vaults = fetched
            /\ apy = r
            /\ calls = <<[fn |-> "fetch_vault_balances", ok |-> TRUE, vaults |-> fetched],
                         [fn |-> "check_aave_apy", ok |-> TRUE, apy |-> r]>>
            /\ signal = ThresholdSignal(r)
            /\ starts = <<0>>

NextGrowth == UpdateOasisGrowth

SpecGrowth == InitGrowth /\ [][NextGrowth]_vars

(***************************************************************************)
(* Properties.                                                             *)
(***************************************************************************)
InCycle == pc \in {"fetch_vault_balances", "check_aave_apy", "update_oasis_growth"}

\* the calls of the cycle from the third on are the pushes
Pushes == 3..Len(calls)

BothFetchesOk == Len(calls) >= 2 /\ calls[1].ok /\ calls[2].ok

\* C1: in a cycle whose fetch_vault_balances call returned an error, that call is
\* the only collaborator call (no check_aave_apy, no update_oasis_growth), and
\* run() is back at interval.tick().await.
C1_FetchErrorEndsCycle ==
    (calls # <<>> /\ ~calls[1].ok) =>
        /\ Len(calls) = 1
        /\ calls[1].fn = "fetch_vault_balances"
        /\ pc = "tick"

C1_Witness ==
    /\ calls # <<>> /\ ~calls[1].ok
    /\ pc = "tick"
    /\ Len(starts) = 2

\* C2: after both fetches succeeded, a failed push neither ends the loop nor is
\* repeated: the k-th push is for the k-th fetched record whatever the earlier
\* pushes returned, the loop still holds every record after the failed one, and
\* the completed cycle has pushed once for each fetched record.
C2_FailedPushDoesNotAbort ==
    \A i \in Pushes :
        ~calls[i].ok =>
            LET fetched == calls[1].vaults
            IN  /\ BothFetchesOk
                /\ \A k \in Pushes :
                      /\ k - 2 <= Len(fetched)
                      /\ calls[k].fn = "update_oasis_growth"
                      /\ calls[k].child_address = fetched[k - 2].child_address
                /\ IF pc = "tick"
                   THEN Len(calls) = 2 + Len(fetched)
                   ELSE /\ pc = "update_oasis_growth"
                        /\ vaults = SubSeq(fetched, Len(calls) - 1, Len(fetched))
                        /\ vaults # <<>>

C2_Witness ==
    /\ pc = "tick"
    /\ \E i \in Pushes : ~calls[i].ok /\ i < Len(calls) /\ calls[i + 1].ok

\* the i-th call is the push of the MOCK principal at the MOCK rate
LiteralCase(i) ==
    /\ calls[1].vaults[i - 2].vault_amount = MOCK_VAULT.vault_amount
    /\ calls[2].apy = MOCK_APY

\* 9,589,041,095,890
StatedLiteral == BigOfDec(<<9, 5,8,9, 0,4,1, 0,9,5, 8,9,0>>)

\* C3 as stated: in the literal case (principal 10^18, rate 3.5) the pushed
\* growth is within one percent of 9,589,041,095,890.
C3_Original_LiteralGrowth ==
    \A i \in Pushes :
        LiteralCase(i) =>
            LET g == calls[i].vault_growth
            IN  /\ BigLe(MulSmall(g, 100), MulSmall(StatedLiteral, 101))
                /\ BigLe(MulSmall(StatedLiteral, 99), MulSmall(g, 100))

\* g * 36500 and principal * r, both scaled by the rate's power of two
ScaledGrowth(g, r) ==
    ShiftLeft(MulSmall(MulSmall(g, 100), 365), IF r.e < 0 THEN 0 - r.e ELSE 0)

ScaledExact(principal, r) ==
    ShiftLeft(MulSmall(principal, r.m), IF r.e > 0 THEN r.e ELSE 0)

\* C3 amended: the pushed growth g is the exact quotient E = P * R / 100 / 365
\* up to the four f64 roundings and the truncation to u128, that is
\* E - 1 - E/2^50 < g <= E + E/2^50 (compared after scaling by 36500 and by the
\* rate's power of two, with one scaled unit of slack); in the literal case
\* (P = 10^18, R = 3.5) it is exactly 95,890,410,958,904.
C3_GrowthWithinRounding ==
    \A i \in Pushes :
        LET principal == calls[1].vaults[i - 2].vault_amount
            r     == calls[2].apy
            g     == calls[i].vault_growth
            exact == ScaledExact(principal, r)
            slack == BigAdd(ShiftRight(exact, 50), <<1>>)
        IN  /\ BigLe(ScaledGrowth(g, r), BigAdd(exact, slack))
            /\ BigLt(exact, BigAdd(ScaledGrowth(BigAdd(g, <<1>>), r), slack))
            /\ LiteralCase(i) =>
                  g = BigOfDec(<<9,5, 8,9,0, 4,1,0, 9,5,8, 9,0,4>>)

C3_Witness ==
    /\ pc = "tick"
    /\ Len(calls) = 3
    /\ LiteralCase(3)
    /\ calls[3].vault_growth # <<>>

\* the interval in seconds
PeriodSecs ==
    LET period == config.check_interval_seconds
    IN  IF Len(period) > 1 THEN FarFuture ELSE Limb(period, 1)

\* C4: two cycles never start less than one interval apart.
C4_AtMostOncePerWindow ==
    Len(starts) = 2 => starts[2] - starts[1] >= PeriodSecs

\* m * 2^e < 2
BelowTwo(r) == IF r.e <= 0 THEN r.m < 2 * 2^(0 - r.e) ELSE r.m * 2^r.e < 2

\* C5: once check_aave_apy has succeeded in a cycle, the alert line is logged if
\* and only if the rate is strictly below 2.0, and the healthy line otherwise;
\* before that neither is logged; and in both cases the completed cycle has
\* pushed for every fetched record.
C5_AlertIffBelowThreshold ==
    IF BothFetchesOk
    THEN /\ signal = "alert" <=> BelowTwo(calls[2].apy)
         /\ signal = "healthy" <=> ~BelowTwo(calls[2].apy)
         /\ pc = "tick" => Len(calls) = 2 + Len(calls[1].vaults)
    ELSE signal = "none"

C5_Witness ==
    /\ pc = "tick"
    /\ signal = "alert"
    /\ calls[2].apy = [m |-> 511, e |-> -8]
    /\ Len(calls) = 4

\* the decimal text of a u64: an optional '+', then one or more digits spelling
\* at most 18446744073709551615
StripPlus(t) == IF t # <<>> /\ t[1] = "+" THEN Tail(t) ELSE t

RECURSIVE StripZeros(_)
StripZeros(t) == IF t # <<>> /\ t[1] = "0" THEN StripZeros(Tail(t)) ELSE t

U64MaxText ==
    <<"1","8","4","4","6","7","4","4","0","7","3","7","0","9","5","5","1","6","1","5">>

\* t <= u in the order of the digit characters, for texts of one length
TextLe(t, u) ==
    \/ t = u
    \/ \E i \in 1..Len(t) :
          /\ \A j \in 1..(i - 1) : t[j] = u[j]
          /\ \E a \in 1..10, b \in 1..10 :
                DecimalDigits[a] = t[i] /\ DecimalDigits[b] = u[i] /\ a < b

IsU64Text(t) ==
    LET body == StripPlus(t)
        sig  == StripZeros(body)
    IN  /\ body # <<>>
        /\ \A i \in 1..Len(body) : \E d \in 1..10 : DecimalDigits[d] = body[i]
        /\ \/ Len(sig) < Len(U64MaxText)
           \/ Len(sig) = Len(U64MaxText) /\ TextLe(sig, U64MaxText)

FieldFollowsEnv(field, v, default) ==
    IF v.kind = "Present" THEN field = v.s ELSE field = default

\* C6: after MonitoringConfig::default, each of the four string fields is its
\* default when its variable is absent or not Unicode and the variable's string
\* otherwise; check_interval_seconds is 3600 when CHECK_INTERVAL is absent, not
\* Unicode or not the decimal text of a u64, and the number it spells otherwise.
C6_DefaultsExactlyWhenAbsentOrUnparsable ==
    pc # "main" =>
        /\ FieldFollowsEnv(config.celo_rpc, env.CELO_RPC_URL, DEFAULT_CELO_RPC)
        /\ FieldFollowsEnv(config.oasis_rpc, env.SAPPHIRE_TESTNET_RPC, DEFAULT_OASIS_RPC)
        /\ FieldFollowsEnv(config.scholar_fi_vault_address, env.SCHOLAR_FI_VAULT,
                           ZERO_ADDRESS)
        /\ FieldFollowsEnv(config.child_data_store_address, env.CHILD_DATA_STORE,
                           ZERO_ADDRESS)
        /\ LET v == env.CHECK_INTERVAL
           IN  IF v.kind = "Present" /\ IsU64Text(v.s)
               THEN LET body == StripPlus(v.s)
                    IN  config.check_interval_seconds =
                            BigOfDec([i \in 1..Len(body) |-> DigitVal(body[i])])
               ELSE config.check_interval_seconds = BigOfInt(DEFAULT_CHECK_INTERVAL)

C6_Witness ==
    /\ pc = "run"
    /\ env.CHECK_INTERVAL = Present(<<" ", "5">>)
    /\ config.check_interval_seconds = BigOfInt(DEFAULT_CHECK_INTERVAL)
    /\ env.CELO_RPC_URL = Present("")
    /\ config.celo_rpc = ""
    /\ env.CHILD_DATA_STORE = NotUnicode
    /\ config.child_data_store_address = ZERO_ADDRESS

\* C7: once run() is in its loop it is either idle at the tick or in a cycle; a
\* cycle that has started reaches its end and run() is idle again, whichever
\* call failed; the only step out of idle starts a new cycle at its first call.
C7_CycleReturnsToIdle ==
    /\ [][(pc = "tick" /\ pc' # "tick") =>
            (pc' = "fetch_vault_balances" /\ calls' = <<>>)]_vars
    /\ [][(InCycle /\ ~InCycle') => pc' = "tick"]_vars
    /\ InCycle ~> (pc = "tick")

C7_Witness ==
    /\ pc = "tick"
    /\ Len(calls) = 2
    /\ ~calls[2].ok
    /\ Len(starts) = 2

\* C8: the process never ends by itself.
C8_NeverTerminates == pc # "panicked"

\* C9: in a cycle whose check_aave_apy call returned an error, no push is made
\* and neither threshold line is logged; run() is back at interval.tick().await.
C9_RateErrorEndsCycle ==
    (Len(calls) >= 2 /\ ~calls[2].ok) =>
        /\ calls[1].ok
        /\ Len(calls) = 2
        /\ signal = "none"
        /\ pc = "tick"

C9_Witness ==
    /\ Len(calls) = 2 /\ ~calls[2].ok
    /\ calls[1].vaults # <<>>
    /\ pc = "tick"

\* C10: the calls of a cycle are fetch_vault_balances, then check_aave_apy, then
\* one update_oasis_growth per fetched record in the collection's order, each
\* with that record's address and the growth of that record's amount at this
\* cycle's rate; a cycle completed after two successful fetches has pushed for
\* every record; between cycles no record and no rate is kept.
C10_SequentialPerCycle ==
    /\ \A i \in 1..Len(calls) :
          calls[i].fn = (IF i = 1 THEN "fetch_vault_balances"
                         ELSE IF i = 2 THEN "check_aave_apy"
                         ELSE "update_oasis_growth")
    /\ \A i \in Pushes :
          /\ BothFetchesOk
          /\ i - 2 <= Len(calls[1].vaults)
          /\ calls[i].child_address = calls[1].vaults[i - 2].child_address
          /\ calls[i].vault_growth =
                SimulatedGrowth(calls[1].vaults[i - 2].vault_amount, calls[2].apy)
    /\ (pc = "tick" /\ BothFetchesOk) => Len(calls) = 2 + Len(calls[1].vaults)
    /\ pc = "fetch_vault_balances" => calls = <<>>
    /\ pc = "check_aave_apy" => Len(calls) = 1 /\ calls[1].ok
    /\ pc = "update_oasis_growth" =>
          /\ BothFetchesOk
          /\ apy = calls[2].apy
          /\ vaults = SubSeq(calls[1].vaults, Len(calls) - 1, Len(calls[1].vaults))
    /\ pc \in {"tick", "fetch_vault_balances"} => vaults = <<>> /\ apy = NoApy

C10_Witness ==
    /\ pc = "tick"
    /\ Len(calls) = 4
    /\ calls[3].child_address = MOCK_VAULT.child_address
    /\ calls[4].child_address = OTHER_VAULT.child_address
    /\ Len(starts) = 2

====
